---- MODULE Spec2Model ----
(***************************************************************************)
(* Model of the streaming session protocol of reddit_scraper.py: the       *)
(* websocket handler websocket_endpoint, the pipeline run_analysis_stream  *)
(* (collection, filtering, summarisation), the two process-wide lazily     *)
(* initialised client handles, and the single event-loop thread on which   *)
(* all sessions run.                                                       *)
(***************************************************************************)
EXTENDS Integers, Sequences, FiniteSets, TLC

(***************************************************************************)
(* Bounds of the model.                                                    *)
(***************************************************************************)
\* Number of websocket sessions the process can serve in one behaviour.
NumSessions == 2
\* Longest ranked list the search collaborator returns.
MaxPosts == 3

Sessions == 1..NumSessions

(***************************************************************************)
(* Program constants.  The numeric limits are scaled down so that the      *)
(* caps, the word threshold and the truncation are reached by the inputs   *)
(* of the model; the order relations of the source are preserved           *)
(* (per-post cap < global target).                                         *)
(***************************************************************************)
TOTAL_COMMENTS_TARGET == 3
MAX_COMMENTS_PER_POST_TARGET == 2
MIN_COMMENT_WORDS == 2
MIN_COMMENT_SCORE == 1
MAX_INPUT_CHARS_AI == 6

\* Python's None for the two global handles; a set handle carries the id of
\* the session whose call created it.
None == 0

(***************************************************************************)
(* Text.  A string is a sequence of one-character strings.                 *)
(***************************************************************************)
Deleted == <<"[", "d", "e", "l", "e", "t", "e", "d", "]">>
Removed == <<"[", "r", "e", "m", "o", "v", "e", "d", "]">>
TruncationMarker ==
    <<".", ".", ".", " ", "[", "T", "R", "U", "N", "C", "A", "D", "O", "]">>
Separator == <<"\n", "\n">>

IsSpace(ch) == ch \in {" ", "\n", "\t"}

\* len(text.split()): the number of maximal runs of non-whitespace.
RECURSIVE WordCountFrom(_, _, _)
WordCountFrom(text, j, inWord) ==
    IF j > Len(text) THEN 0
    ELSE IF IsSpace(text[j]) THEN WordCountFrom(text, j + 1, FALSE)
    ELSE (IF inWord THEN 0 ELSE 1) + WordCountFrom(text, j + 1, TRUE)

WordCount(text) == WordCountFrom(text, 1, FALSE)

\* body of a raw comment: the attribute can be a str, None, a non-str value,
\* or missing altogether.
TextBody(chars) == [tag |-> "text", chars |-> chars]
NullBody == [tag |-> "null", chars |-> <<>>]
AbsentBody == [tag |-> "absent", chars |-> <<>>]
IntBody == [tag |-> "int", chars |-> <<>>]

\* lines 80-88 with `>` in place of `>=` on the score
is_comment_valid_gt(comment, min_words, min_score) ==
    LET b == comment.body IN
    IF b.tag = "absent" THEN "raise"
    ELSE IF b.tag = "null" THEN "false"
    ELSE IF b.tag = "int" THEN "raise"
    ELSE IF b.chars = <<>> THEN "false"
    ELSE IF b.chars = Deleted THEN "false"
    ELSE IF b.chars = Removed THEN "false"
    ELSE IF WordCount(b.chars) >= min_words /\ comment.score > min_score
         THEN "true" ELSE "false"

(***************************************************************************)
(* is_comment_valid: the chained `and` of the source, evaluated left to    *)
(* right.  The result is "true", "false" (any falsy value) or "raise"      *)
(* (the attribute access or the call on the body raises).                  *)
(***************************************************************************)
is_comment_valid(comment, min_words, min_score) ==
    LET b == comment.body IN
    IF b.tag = "absent" THEN "raise"
    ELSE IF b.tag = "null" THEN "false"
    ELSE IF b.tag = "int" THEN "raise"
    ELSE IF b.chars = <<>> THEN "false"
    ELSE IF b.chars = Deleted THEN "false"
    ELSE IF b.chars = Removed THEN "false"
    ELSE IF WordCount(b.chars) >= min_words /\ comment.score >= min_score
         THEN "true" ELSE "false"

\* datetime.utcfromtimestamp(t).strftime(...), as (days since epoch, h, m, s).
FormatUtc(t) ==
    <<t \div 86400, (t % 86400) \div 3600, (t % 3600) \div 60, t % 60>>

(***************************************************************************)
(* What the content-retrieval collaborator can return.                     *)
(***************************************************************************)
Text_ab == <<"a", " ", "b">>
Text_baa == <<"b", " ", "a", " ", "a">>
Text_a == <<"a">>

RawComment(id, body, score, created_utc) ==
    [kind |-> "comment", id |-> id, body |-> body, score |-> score,
     created_utc |-> created_utc]
\* a praw MoreComments placeholder: not an instance of praw.models.Comment
MoreComments(id) ==
    [kind |-> "more", id |-> id, body |-> AbsentBody, score |-> 0,
     created_utc |-> 0]

c1 == RawComment("c1", TextBody(Text_ab), 1, 60)
c2 == RawComment("c2", TextBody(Text_baa), 2, 3600)
c3 == RawComment("c3", TextBody(Removed), 5, 86400)
c4 == RawComment("c4", TextBody(Text_a), 3, 0)
c5 == RawComment("c5", TextBody(Text_ab), 0, 61)
c6 == MoreComments("c6")
c7 == RawComment("c7", TextBody(Text_ab), 4, 1)
c8 == RawComment("c8", TextBody(Text_baa), 1, 2)
c9 == RawComment("c9", TextBody(Text_ab), 7, 3)
c10 == RawComment("c10", AbsentBody, 2, 4)

\* fetch_ok = FALSE: reading submission.comments raises.
Submission(id, title, comments, fetch_ok) ==
    [id |-> id, title |-> title, comments |-> comments, fetch_ok |-> fetch_ok]

p1 == Submission("p1", "t1", <<c1, c3, c2>>, TRUE)
p2 == Submission("p2", "t2", <<c4, c1, c5, c10, c9>>, TRUE)
p3 == Submission("p3", "t3", <<c6, c7, c8, c9>>, TRUE)
p5 == Submission("p5", "t5", <<>>, FALSE)

PostPool == {p1, p2, p3, p5}

RECURSIVE SeqsUpTo(_, _)
SeqsUpTo(S, n) ==
    IF n = 0 THEN {<<>>}
    ELSE LET shorter == SeqsUpTo(S, n - 1) IN
         shorter \cup {Append(q, x) : q \in shorter, x \in S}

\* every ranked list of at most MaxPosts posts, the same post possibly at
\* more than one rank
RankedLists == SeqsUpTo(PostPool, MaxPosts)

(***************************************************************************)
(* One post's traversal, lines 146-169.  st holds the session's collected  *)
(* data and ids, comments_added_from_post, and whether the traversal       *)
(* raised (caught at line 168).                                            *)
(***************************************************************************)
CollectedComment(submission, comment) ==
    [post_title |-> submission.title,
     post_id |-> submission.id,
     comment_id |-> comment.id,
     comment_body |-> comment.body.chars,
     comment_score |-> comment.score,
     comment_utc_date |-> FormatUtc(comment.created_utc)]

\* the traversal without the `not in collected_comment_ids` test of line 156
RECURSIVE TraverseFrom_nodedup(_, _, _)
TraverseFrom_nodedup(submission, j, st) ==
    IF j > Len(submission.comments) THEN st
    ELSE IF Len(st.data) >= TOTAL_COMMENTS_TARGET THEN st
    ELSE IF st.added >= MAX_COMMENTS_PER_POST_TARGET THEN st
    ELSE LET comment == submission.comments[j] IN
         IF comment.kind = "comment"
         THEN LET v == is_comment_valid(comment, MIN_COMMENT_WORDS,
                                        MIN_COMMENT_SCORE) IN
              IF v = "raise" THEN [st EXCEPT !.raised = TRUE]
              ELSE IF v = "true"
              THEN TraverseFrom_nodedup(submission, j + 1,
                     [st EXCEPT !.data = Append(@, CollectedComment(submission, comment)),
                                !.ids = @ \cup {comment.id},
                                !.added = @ + 1])
              ELSE TraverseFrom_nodedup(submission, j + 1, st)
         ELSE TraverseFrom_nodedup(submission, j + 1, st)

RECURSIVE TraverseFrom(_, _, _)
TraverseFrom(submission, j, st) ==
    IF j > Len(submission.comments) THEN st
    ELSE IF Len(st.data) >= TOTAL_COMMENTS_TARGET THEN st
    ELSE IF st.added >= MAX_COMMENTS_PER_POST_TARGET THEN st
    ELSE LET comment == submission.comments[j] IN
         IF comment.kind = "comment" /\ comment.id \notin st.ids
         THEN LET v == is_comment_valid(comment, MIN_COMMENT_WORDS,
                                        MIN_COMMENT_SCORE) IN
              IF v = "raise" THEN [st EXCEPT !.raised = TRUE]
              ELSE IF v = "true"
              THEN TraverseFrom(submission, j + 1,
                     [st EXCEPT !.data = Append(@, CollectedComment(submission, comment)),
                                !.ids = @ \cup {comment.id},
                                !.added = @ + 1])
              ELSE TraverseFrom(submission, j + 1, st)
         ELSE TraverseFrom(submission, j + 1, st)

ProcessPost(submission, data, ids) ==
    LET st0 == [data |-> data, ids |-> ids, added |-> 0, raised |-> FALSE] IN
    IF submission.fetch_ok THEN TraverseFrom(submission, 1, st0)
    ELSE [st0 EXCEPT !.raised = TRUE]

(***************************************************************************)
(* The corpus of the prompt, lines 190-193.                                *)
(***************************************************************************)
RECURSIVE JoinBodies(_, _)
JoinBodies(data, j) ==
    IF j > Len(data) THEN <<>>
    ELSE IF j = Len(data) THEN data[j].comment_body
    ELSE data[j].comment_body \o Separator \o JoinBodies(data, j + 1)

\* lines 191-193 with >= in place of >
Truncate_ge(text) ==
    IF Len(text) >= MAX_INPUT_CHARS_AI
    THEN SubSeq(text, 1, MAX_INPUT_CHARS_AI) \o TruncationMarker
    ELSE text

Truncate(text) ==
    IF Len(text) > MAX_INPUT_CHARS_AI
    THEN SubSeq(text, 1, MAX_INPUT_CHARS_AI) \o TruncationMarker
    ELSE text

BuildCorpus(data) == Truncate(JoinBodies(data, 1))

(***************************************************************************)
(* What the model-completion collaborator can stream: chunks whose delta   *)
(* content is text, empty text, or None.                                   *)
(***************************************************************************)
Chunk(chars) == [tag |-> "text", chars |-> chars]
NoContent == [tag |-> "null", chars |-> <<>>]

StreamPool ==
    { <<>>,
      <<Chunk(<<"x">>), Chunk(<<>>), NoContent, Chunk(<<"y">>)>> }

(***************************************************************************)
(* The first inbound frame, as json.loads sees it.                         *)
(***************************************************************************)
Frame(raw, decodable, isdict, action, has_term, term_kind, term) ==
    [raw |-> raw, decodable |-> decodable, isdict |-> isdict,
     action |-> action, has_term |-> has_term, term_kind |-> term_kind,
     term |-> term]

NoFrame == Frame("", FALSE, FALSE, "", FALSE, "", "")
\* receive_text raises WebSocketDisconnect
PeerGone == Frame("#disconnect", FALSE, FALSE, "", FALSE, "", "")
M_garbage == Frame("not json", FALSE, FALSE, "", FALSE, "", "")
M_list == Frame("[1, 2]", TRUE, FALSE, "", FALSE, "", "")
M_foo == Frame("{foo: bar}", TRUE, TRUE, "", FALSE, "", "")
M_start_noterm == Frame("{action: start}", TRUE, TRUE, "start", FALSE, "", "")
M_stop == Frame("{action: stop, term: coffee}", TRUE, TRUE, "stop", TRUE, "str", "coffee")
M_coffee == Frame("{action: start, term: coffee}", TRUE, TRUE, "start", TRUE, "str", "coffee")
M_empty == Frame("{action: start, term: ''}", TRUE, TRUE, "start", TRUE, "str", "")
M_null == Frame("{action: start, term: null}", TRUE, TRUE, "start", TRUE, "null", "")

FramePool ==
    {M_garbage, M_list, M_foo, M_start_noterm, M_stop, M_coffee, M_empty, M_null}

\* the shape test with `or` in place of `and`
IsStartMessage_or(message) == message.action = "start" \/ message.has_term

\* line 243
IsStartMessage(message) == message.action = "start" /\ message.has_term

(***************************************************************************)
(* Protocol events.                                                        *)
(***************************************************************************)
Event(type, tag, k, n, text, comments) ==
    [type |-> type, tag |-> tag, k |-> k, n |-> n, text |-> text,
     comments |-> comments]
Status(tag, k, n) == Event("status", tag, k, n, <<>>, <<>>)
AiChunk(text) == Event("ai_chunk", "", 0, 0, text, <<>>)
Error(tag) == Event("error", tag, 0, 0, <<>>, <<>>)
FinalData(comments) == Event("final_data", "", 0, 0, <<>>, comments)

(***************************************************************************)
(* State.                                                                  *)
(***************************************************************************)
VARIABLES
    env,                      \* the process environment and the collaborators' repertoire
    reddit_instance,          \* global handle, line 42
    openrouter_client,        \* global handle, line 43
    loop,                     \* the session running on the event-loop thread, or NoTask
    pc,                       \* each session's position in the handler
    message,                  \* the first inbound frame
    search_term,
    search_results,
    idx,                      \* rank of the post of the current iteration
    collected_comments_data,
    collected_comment_ids,
    posts_procesados,
    comments_text_for_ai,
    stream,                   \* the chunks the completion call will yield
    pos,                      \* chunks taken from the stream so far
    content,                  \* the text of the chunk being sent
    sent,                     \* events delivered to the peer, in order
    attempts,                 \* number of send attempts on the connection
    calls,                    \* collaborator calls issued, in order
    signalled,                \* WebSocketDisconnect has been raised to the session
    failed,                   \* kinds of failure seen by the session
    init_completed,           \* per handle: initialisation calls that created and returned it
    probe,                    \* a direct application of a pure function: inputs and result
    client_pc,                \* the bundled client: "absent", or its position in connect_and_analyze
    client_received,          \* frames the client has taken from the connection
    client_printed,           \* msg_type of each frame the client has processed, in order
    client_exit               \* what made the client leave its receive loop

client_vars == <<client_pc, client_received, client_printed, client_exit>>
aside == <<probe, client_vars>>
globals == <<env, reddit_instance, openrouter_client, init_completed, aside>>
locals == <<message, search_term, search_results, idx, collected_comments_data,
            collected_comment_ids, posts_procesados, comments_text_for_ai,
            stream, pos, content>>
wire == <<sent, attempts, signalled>>
vars == <<env, reddit_instance, openrouter_client, loop, pc, message,
          search_term, search_results, idx, collected_comments_data,
          collected_comment_ids, posts_procesados, comments_text_for_ai,
          stream, pos, content, sent, attempts, calls, signalled, failed,
          init_completed, probe, client_pc, client_received, client_printed,
          client_exit>>

NoTask == 0

\* every send outcome: delivered, WebSocketDisconnect, any other exception
AllOutcomes == {"ok", "disconnect", "error"}

(***************************************************************************)
(* The environment of a behaviour.  env.concurrent = FALSE: one client,    *)
(* against every frame, listing, stream and failure.  env.concurrent =     *)
(* TRUE: every session has a client, against a reduced repertoire.  When   *)
(* the peer of session 1 is the bundled client (ws_client.py), the frame   *)
(* is the start message that client sends (none before it is sent, the    *)
(* close of the connection when the client returned without sending), and  *)
(* a send can only fail once the client has closed the connection.         *)
(***************************************************************************)
Attached == client_pc # "absent"
Clients == IF env.concurrent THEN Sessions ELSE {1}
Frames ==
    IF env.concurrent THEN {M_garbage, M_list, M_foo, M_coffee}
    ELSE IF Attached THEN
        (CASE client_pc = "input" -> {}
           [] client_pc = "returned" -> {PeerGone}
           [] OTHER -> {M_coffee})
    ELSE FramePool \cup {PeerGone}
Outcomes ==
    IF env.concurrent THEN {"ok"}
    ELSE IF client_pc \in {"input", "loop"} THEN {"ok"}
    ELSE AllOutcomes
Results == {"ok", "raise"}
Listings ==
    IF env.concurrent THEN {<<p5>>, <<p1, p3, p1>>}
    ELSE IF Attached THEN {<<>>, <<p2, p1>>, <<p1, p3, p1>>}
    ELSE RankedLists
Streams == IF env.concurrent THEN {<<Chunk(<<"x">>)>>} ELSE StreamPool

\* positions at which the session is in synchronous code: it keeps the
\* event-loop thread until the call returns
SyncPCs == {"init_praw", "praw_me", "init_openrouter", "search", "comments",
            "create", "next_chunk"}
\* among them: the search query, a post's comment traversal, the completion
\* call and the wait for its next chunk
BlockingPCs == {"search", "comments", "create", "next_chunk"}
EndPCs == {"closed", "escaped"}

Running(s) == loop \in {NoTask, s}

Goto(s, next) ==
    /\ pc' = [pc EXCEPT ![s] = next]
    /\ loop' = IF next \in SyncPCs THEN s ELSE NoTask

\* websocket.send_json, and the inner send_json that re-raises (lines 97-105)
send_json(s, ev, o) ==
    /\ sent' = [sent EXCEPT ![s] = IF o = "ok" THEN Append(@, ev) ELSE @]
    /\ attempts' = [attempts EXCEPT ![s] = @ + 1]
    /\ signalled' = [signalled EXCEPT ![s] = @ \/ (o = "disconnect")]
    /\ failed' = [failed EXCEPT ![s] = IF o = "ok" THEN @ ELSE @ \cup {"send"}]

\* the except clauses of websocket_endpoint (lines 251-261) for an exception
\* raised inside its try block
HandlerCatch(o) == IF o = "disconnect" THEN "closed" ELSE "send_internal_error"

\* the collection try block without its WebSocketDisconnect clause
CollectCatch_nodisconnect(o) == "send_reddit_error"

\* the except clauses of the collection try block (lines 173-178)
CollectCatch(o) == IF o = "disconnect" THEN "closed" ELSE "send_reddit_error"

\* the except clauses of the completion try block (lines 219-223)
StreamCatch(o) == IF o = "disconnect" THEN "closed" ELSE "send_ai_error"

\* a send whose outcome only decides where control goes
Deliver(s, ev, onOk, onDisconnect, onError) ==
    /\ \E o \in Outcomes :
         /\ send_json(s, ev, o)
         /\ Goto(s, CASE o = "ok" -> onOk
                      [] o = "disconnect" -> onDisconnect
                      [] OTHER -> onError)
    /\ UNCHANGED <<globals, locals, calls>>

(***************************************************************************)
(* websocket_endpoint                                                      *)
(***************************************************************************)
\* line 236
Accept(s) ==
    /\ pc[s] = "new"
    /\ s \in Clients
    /\ Running(s)
    /\ Goto(s, "receive")
    /\ UNCHANGED <<globals, locals, wire, calls, failed>>

\* lines 241-248: receive_text, json.loads and the shape test
ReceiveText(s) ==
    /\ pc[s] = "receive"
    /\ Running(s)
    /\ \E m \in Frames :
         /\ message' = [message EXCEPT ![s] = m]
         /\ signalled' = [signalled EXCEPT ![s] = (m = PeerGone)]
         /\ IF m = PeerGone THEN
                /\ Goto(s, "closed")
                /\ UNCHANGED search_term
            ELSE IF ~m.decodable THEN
                /\ Goto(s, "send_invalid_json")
                /\ UNCHANGED search_term
            ELSE IF ~m.isdict THEN
                /\ Goto(s, "send_internal_error")
                /\ UNCHANGED search_term
            ELSE IF IsStartMessage(m) THEN
                /\ search_term' = [search_term EXCEPT ![s] =
                                     [kind |-> m.term_kind, text |-> m.term]]
                /\ Goto(s, "send_inicializando")
            ELSE
                /\ Goto(s, "send_invalid_start")
                /\ UNCHANGED search_term
    /\ UNCHANGED <<globals, search_results, idx, collected_comments_data,
                   collected_comment_ids, posts_procesados,
                   comments_text_for_ai, stream, pos, content, sent, attempts,
                   calls, failed>>

\* line 249
SendInvalidStart(s) ==
    /\ pc[s] = "send_invalid_start"
    /\ Running(s)
    /\ Deliver(s, Error("invalid_start"),
           "closed", HandlerCatch("disconnect"), HandlerCatch("error"))

\* line 255: a send inside the except clause, outside any try
SendInvalidJson(s) ==
    /\ pc[s] = "send_invalid_json"
    /\ Running(s)
    /\ Deliver(s, Error("invalid_json"),
           "closed", "escaped", "escaped")

\* lines 258-261
SendInternalError(s) ==
    /\ pc[s] = "send_internal_error"
    /\ Running(s)
    /\ Deliver(s, Error("internal"),
           "closed", "closed", "closed")

(***************************************************************************)
(* run_analysis_stream: initialisation of the handles                      *)
(***************************************************************************)
\* line 107
SendInicializando(s) ==
    /\ pc[s] = "send_inicializando"
    /\ Running(s)
    /\ Deliver(s, Status("inicializando", 0, 0),
           "init_praw", HandlerCatch("disconnect"), HandlerCatch("error"))

\* initialize_praw_sync without the `is None` test of line 49
InitPraw_always(s) ==
    /\ pc[s] = "init_praw"
    /\ Running(s)
    /\ IF ~env.reddit_secrets THEN
           /\ Goto(s, "send_reddit_init_error")
           /\ failed' = [failed EXCEPT ![s] = @ \cup {"init"}]
           /\ UNCHANGED <<reddit_instance, calls>>
       ELSE \E r \in Results :
           /\ calls' = [calls EXCEPT ![s] = Append(@, "praw.Reddit")]
           /\ IF r = "ok" THEN
                  /\ reddit_instance' = s
                  /\ Goto(s, "praw_me")
                  /\ UNCHANGED failed
              ELSE
                  /\ reddit_instance' = None
                  /\ Goto(s, "send_reddit_init_error")
                  /\ failed' = [failed EXCEPT ![s] = @ \cup {"init"}]
    /\ UNCHANGED <<env, aside, openrouter_client, init_completed, locals, wire>>

\* initialize_praw_sync up to the constructor, lines 47-57
InitPraw(s) ==
    /\ pc[s] = "init_praw"
    /\ Running(s)
    /\ IF reddit_instance # None THEN
           /\ Goto(s, "init_openrouter")
           /\ UNCHANGED <<reddit_instance, calls, failed>>
       ELSE IF ~env.reddit_secrets THEN
           /\ Goto(s, "send_reddit_init_error")
           /\ failed' = [failed EXCEPT ![s] = @ \cup {"init"}]
           /\ UNCHANGED <<reddit_instance, calls>>
       ELSE \E r \in Results :
           /\ calls' = [calls EXCEPT ![s] = Append(@, "praw.Reddit")]
           /\ IF r = "ok" THEN
                  /\ reddit_instance' = s
                  /\ Goto(s, "praw_me")
                  /\ UNCHANGED failed
              ELSE
                  /\ reddit_instance' = None
                  /\ Goto(s, "send_reddit_init_error")
                  /\ failed' = [failed EXCEPT ![s] = @ \cup {"init"}]
    /\ UNCHANGED <<env, aside, openrouter_client, init_completed, locals, wire>>

\* reddit_instance.user.me() and the return, lines 58-62
PrawUserMe(s) ==
    /\ pc[s] = "praw_me"
    /\ Running(s)
    /\ calls' = [calls EXCEPT ![s] = Append(@, "user.me")]
    /\ \E r \in Results :
         IF r = "ok" THEN
             /\ init_completed' = [init_completed EXCEPT !.reddit = @ + 1]
             /\ Goto(s, "init_openrouter")
             /\ UNCHANGED <<reddit_instance, failed>>
         ELSE
             /\ reddit_instance' = None
             /\ Goto(s, "send_reddit_init_error")
             /\ failed' = [failed EXCEPT ![s] = @ \cup {"init"}]
             /\ UNCHANGED init_completed
    /\ UNCHANGED <<env, aside, openrouter_client, locals, wire>>

\* line 113
SendRedditInitError(s) ==
    /\ pc[s] = "send_reddit_init_error"
    /\ Running(s)
    /\ Deliver(s, Error("reddit_init"),
           "closed", HandlerCatch("disconnect"), HandlerCatch("error"))

\* initialize_openrouter_client_sync, lines 64-78
InitOpenRouter(s) ==
    /\ pc[s] = "init_openrouter"
    /\ Running(s)
    /\ IF openrouter_client # None THEN
           /\ Goto(s, "send_buscando")
           /\ UNCHANGED <<openrouter_client, init_completed, calls, failed>>
       ELSE IF ~env.openrouter_key THEN
           /\ Goto(s, "send_openrouter_init_error")
           /\ failed' = [failed EXCEPT ![s] = @ \cup {"init"}]
           /\ UNCHANGED <<openrouter_client, init_completed, calls>>
       ELSE \E r \in Results :
           /\ calls' = [calls EXCEPT ![s] = Append(@, "OpenAI")]
           /\ IF r = "ok" THEN
                  /\ openrouter_client' = s
                  /\ init_completed' = [init_completed EXCEPT !.openrouter = @ + 1]
                  /\ Goto(s, "send_buscando")
                  /\ UNCHANGED failed
              ELSE
                  /\ openrouter_client' = None
                  /\ Goto(s, "send_openrouter_init_error")
                  /\ failed' = [failed EXCEPT ![s] = @ \cup {"init"}]
                  /\ UNCHANGED init_completed
    /\ UNCHANGED <<env, aside, reddit_instance, locals, wire>>

\* line 118
SendOpenRouterInitError(s) ==
    /\ pc[s] = "send_openrouter_init_error"
    /\ Running(s)
    /\ Deliver(s, Error("openrouter_init"),
           "closed", HandlerCatch("disconnect"), HandlerCatch("error"))

(***************************************************************************)
(* run_analysis_stream: search and collection                              *)
(***************************************************************************)
\* line 125
SendBuscando(s) ==
    /\ pc[s] = "send_buscando"
    /\ Running(s)
    /\ Deliver(s, Status("buscando", 0, 0),
           "search", HandlerCatch("disconnect"), HandlerCatch("error"))

\* lines 130-131
SubredditSearch(s) ==
    /\ pc[s] = "search"
    /\ Running(s)
    /\ calls' = [calls EXCEPT ![s] = Append(@, "search")]
    /\ \E r \in Results :
         IF r = "ok" THEN
             /\ \E posts \in Listings :
                  search_results' = [search_results EXCEPT ![s] = posts]
             /\ Goto(s, "send_encontrados")
             /\ UNCHANGED failed
         ELSE
             /\ Goto(s, CollectCatch("error"))
             /\ failed' = [failed EXCEPT ![s] = @ \cup {"search"}]
             /\ UNCHANGED search_results
    /\ UNCHANGED <<globals, message, search_term, idx, collected_comments_data,
                   collected_comment_ids, posts_procesados,
                   comments_text_for_ai, stream, pos, content, wire>>

\* the head of the for loop without the target test of lines 136-138
LoopHead_nolimit(s, i) ==
    IF i > Len(search_results[s]) THEN "send_finalizada"
    ELSE "send_procesando"

\* the head of the for loop for the post of rank i, lines 135-140
LoopHead(s, i) ==
    IF i > Len(search_results[s]) THEN "send_finalizada"
    ELSE IF Len(collected_comments_data[s]) >= TOTAL_COMMENTS_TARGET
         THEN "send_limite"
    ELSE "send_procesando"

EnterIteration(s, i) ==
    /\ Goto(s, LoopHead(s, i))
    /\ idx' = [idx EXCEPT ![s] = i]
    /\ posts_procesados' =
         [posts_procesados EXCEPT ![s] =
             IF LoopHead(s, i) = "send_procesando" THEN @ + 1 ELSE @]

\* line 133, then the first iteration's head
SendEncontrados(s) ==
    /\ pc[s] = "send_encontrados"
    /\ Running(s)
    /\ \E o \in Outcomes :
         /\ send_json(s, Status("encontrados", 0, Len(search_results[s])), o)
         /\ IF o = "ok" THEN EnterIteration(s, 1)
            ELSE /\ Goto(s, CollectCatch(o))
                 /\ UNCHANGED <<idx, posts_procesados>>
    /\ UNCHANGED <<globals, message, search_term, search_results,
                   collected_comments_data, collected_comment_ids,
                   comments_text_for_ai, stream, pos, content, calls>>

\* lines 137-138
SendLimite(s) ==
    /\ pc[s] = "send_limite"
    /\ Running(s)
    /\ Deliver(s, Status("limite", 0, TOTAL_COMMENTS_TARGET),
           "send_finalizada", CollectCatch("disconnect"), CollectCatch("error"))

\* line 142
SendProcesando(s) ==
    /\ pc[s] = "send_procesando"
    /\ Running(s)
    /\ Deliver(s, Status("procesando", posts_procesados[s], Len(search_results[s])),
           "comments", CollectCatch("disconnect"), CollectCatch("error"))

\* lines 146-167 without the inner try of lines 148 and 168-169
TraverseComments_noinnertry(s) ==
    /\ pc[s] = "comments"
    /\ Running(s)
    /\ LET st == ProcessPost(search_results[s][idx[s]],
                             collected_comments_data[s],
                             collected_comment_ids[s]) IN
         /\ collected_comments_data' =
              [collected_comments_data EXCEPT ![s] = st.data]
         /\ collected_comment_ids' =
              [collected_comment_ids EXCEPT ![s] = st.ids]
         /\ failed' = [failed EXCEPT ![s] =
                         IF st.raised THEN @ \cup {"comments"} ELSE @]
         /\ Goto(s, IF st.raised THEN CollectCatch("error") ELSE "sleep_post")
    /\ calls' = [calls EXCEPT ![s] = Append(@, "comments")]
    /\ UNCHANGED <<globals, message, search_term, search_results, idx,
                   posts_procesados, comments_text_for_ai, stream, pos,
                   content, wire>>

\* lines 146-169: the traversal of one post, failures swallowed at line 168
TraverseComments(s) ==
    /\ pc[s] = "comments"
    /\ Running(s)
    /\ LET st == ProcessPost(search_results[s][idx[s]],
                             collected_comments_data[s],
                             collected_comment_ids[s]) IN
         /\ collected_comments_data' =
              [collected_comments_data EXCEPT ![s] = st.data]
         /\ collected_comment_ids' =
              [collected_comment_ids EXCEPT ![s] = st.ids]
         /\ failed' = [failed EXCEPT ![s] =
                         IF st.raised THEN @ \cup {"comments"} ELSE @]
    /\ calls' = [calls EXCEPT ![s] = Append(@, "comments")]
    /\ Goto(s, "sleep_post")
    /\ UNCHANGED <<globals, message, search_term, search_results, idx,
                   posts_procesados, comments_text_for_ai, stream, pos,
                   content, wire>>

\* line 171, then the next iteration's head
SleepAfterPost(s) ==
    /\ pc[s] = "sleep_post"
    /\ Running(s)
    /\ EnterIteration(s, idx[s] + 1)
    /\ UNCHANGED <<globals, message, search_term, search_results,
                   collected_comments_data, collected_comment_ids,
                   comments_text_for_ai, stream, pos, content, wire, calls,
                   failed>>

\* lines 175-178 without the return at line 178
SendRedditError_noreturn(s) ==
    /\ pc[s] = "send_reddit_error"
    /\ Running(s)
    /\ Deliver(s, Error("reddit"),
           "send_finalizada", HandlerCatch("disconnect"), HandlerCatch("error"))

\* lines 175-178
SendRedditError(s) ==
    /\ pc[s] = "send_reddit_error"
    /\ Running(s)
    /\ Deliver(s, Error("reddit"),
           "closed", HandlerCatch("disconnect"), HandlerCatch("error"))

(***************************************************************************)
(* run_analysis_stream: summarisation                                      *)
(***************************************************************************)
\* lines 181-196 without the empty test of lines 186-188
SendFinalizada_noempty(s) ==
    /\ pc[s] = "send_finalizada"
    /\ Running(s)
    /\ \E o \in Outcomes :
         /\ send_json(s, Status("finalizada", 0, Len(collected_comments_data[s])), o)
         /\ IF o # "ok" THEN
                /\ Goto(s, HandlerCatch(o))
                /\ UNCHANGED comments_text_for_ai
            ELSE
                /\ Goto(s, "send_llamando")
                /\ comments_text_for_ai' =
                     [comments_text_for_ai EXCEPT ![s] =
                         BuildCorpus(collected_comments_data[s])]
    /\ UNCHANGED <<globals, message, search_term, search_results, idx,
                   collected_comments_data, collected_comment_ids,
                   posts_procesados, stream, pos, content, calls>>

\* lines 181-196: the count, the empty test and the corpus
SendFinalizada(s) ==
    /\ pc[s] = "send_finalizada"
    /\ Running(s)
    /\ \E o \in Outcomes :
         /\ send_json(s, Status("finalizada", 0, Len(collected_comments_data[s])), o)
         /\ IF o # "ok" THEN
                /\ Goto(s, HandlerCatch(o))
                /\ UNCHANGED comments_text_for_ai
            ELSE IF collected_comments_data[s] = <<>> THEN
                /\ Goto(s, "send_no_comments")
                /\ UNCHANGED comments_text_for_ai
            ELSE
                /\ Goto(s, "send_llamando")
                /\ comments_text_for_ai' =
                     [comments_text_for_ai EXCEPT ![s] =
                         BuildCorpus(collected_comments_data[s])]
    /\ UNCHANGED <<globals, message, search_term, search_results, idx,
                   collected_comments_data, collected_comment_ids,
                   posts_procesados, stream, pos, content, calls>>

\* lines 187-188
SendNoComments(s) ==
    /\ pc[s] = "send_no_comments"
    /\ Running(s)
    /\ Deliver(s, Status("sin_comentarios", 0, 0),
           "closed", HandlerCatch("disconnect"), HandlerCatch("error"))

\* line 198
SendLlamandoIA(s) ==
    /\ pc[s] = "send_llamando"
    /\ Running(s)
    /\ Deliver(s, Status("llamando_ia", 0, 0),
           "create", HandlerCatch("disconnect"), HandlerCatch("error"))

\* lines 204-210
CompletionsCreate(s) ==
    /\ pc[s] = "create"
    /\ Running(s)
    /\ calls' = [calls EXCEPT ![s] = Append(@, "create")]
    /\ \E r \in Results :
         IF r = "ok" THEN
             /\ \E chunks \in Streams :
                  stream' = [stream EXCEPT ![s] = chunks]
             /\ Goto(s, "next_chunk")
             /\ UNCHANGED failed
         ELSE
             /\ Goto(s, StreamCatch("error"))
             /\ failed' = [failed EXCEPT ![s] = @ \cup {"model"}]
             /\ UNCHANGED stream
    /\ UNCHANGED <<globals, message, search_term, search_results, idx,
                   collected_comments_data, collected_comment_ids,
                   posts_procesados, comments_text_for_ai, pos, content, wire>>

\* lines 211-213 without the `if content:` test of line 213
NextChunk_noempty(s) ==
    /\ pc[s] = "next_chunk"
    /\ Running(s)
    /\ calls' = [calls EXCEPT ![s] = Append(@, "next")]
    /\ \E r \in Results :
         IF r # "ok" THEN
             /\ Goto(s, StreamCatch("error"))
             /\ failed' = [failed EXCEPT ![s] = @ \cup {"model"}]
             /\ UNCHANGED <<pos, content>>
         ELSE IF pos[s] = Len(stream[s]) THEN
             /\ Goto(s, "send_completado")
             /\ UNCHANGED <<pos, content, failed>>
         ELSE LET chunk == stream[s][pos[s] + 1] IN
             /\ pos' = [pos EXCEPT ![s] = @ + 1]
             /\ content' = [content EXCEPT ![s] = chunk.chars]
             /\ Goto(s, "send_ai_chunk")
             /\ UNCHANGED failed
    /\ UNCHANGED <<globals, message, search_term, search_results, idx,
                   collected_comments_data, collected_comment_ids,
                   posts_procesados, comments_text_for_ai, stream, wire>>

\* lines 211-213: the next chunk of the stream, its end, or its failure
NextChunk(s) ==
    /\ pc[s] = "next_chunk"
    /\ Running(s)
    /\ calls' = [calls EXCEPT ![s] = Append(@, "next")]
    /\ \E r \in Results :
         IF r # "ok" THEN
             /\ Goto(s, StreamCatch("error"))
             /\ failed' = [failed EXCEPT ![s] = @ \cup {"model"}]
             /\ UNCHANGED <<pos, content>>
         ELSE IF pos[s] = Len(stream[s]) THEN
             /\ Goto(s, "send_completado")
             /\ UNCHANGED <<pos, content, failed>>
         ELSE LET chunk == stream[s][pos[s] + 1] IN
             /\ pos' = [pos EXCEPT ![s] = @ + 1]
             /\ IF chunk.tag = "text" /\ chunk.chars # <<>> THEN
                    /\ content' = [content EXCEPT ![s] = chunk.chars]
                    /\ Goto(s, "send_ai_chunk")
                ELSE
                    /\ Goto(s, "next_chunk")
                    /\ UNCHANGED content
             /\ UNCHANGED failed
    /\ UNCHANGED <<globals, message, search_term, search_results, idx,
                   collected_comments_data, collected_comment_ids,
                   posts_procesados, comments_text_for_ai, stream, wire>>

\* line 214
SendAiChunk(s) ==
    /\ pc[s] = "send_ai_chunk"
    /\ Running(s)
    /\ Deliver(s, AiChunk(content[s]),
           "sleep_chunk", StreamCatch("disconnect"), StreamCatch("error"))

\* line 215
SleepAfterChunk(s) ==
    /\ pc[s] = "sleep_chunk"
    /\ Running(s)
    /\ Goto(s, "next_chunk")
    /\ UNCHANGED <<globals, locals, wire, calls, failed>>

\* line 217
SendCompletado(s) ==
    /\ pc[s] = "send_completado"
    /\ Running(s)
    /\ Deliver(s, Status("completado", 0, 0),
           "send_final_data", StreamCatch("disconnect"), StreamCatch("error"))

\* lines 221-223 followed by a return
SendAiError_return(s) ==
    /\ pc[s] = "send_ai_error"
    /\ Running(s)
    /\ Deliver(s, Error("ia"),
           "closed", HandlerCatch("disconnect"), HandlerCatch("error"))

\* lines 221-223
SendAiError(s) ==
    /\ pc[s] = "send_ai_error"
    /\ Running(s)
    /\ Deliver(s, Error("ia"),
           "send_final_data", HandlerCatch("disconnect"), HandlerCatch("error"))

\* line 226
SendFinalData(s) ==
    /\ pc[s] = "send_final_data"
    /\ Running(s)
    /\ Deliver(s, FinalData(collected_comments_data[s]),
           "closed", HandlerCatch("disconnect"), HandlerCatch("error"))

(***************************************************************************)
(* Specifications                                                          *)
(***************************************************************************)
NoTerm == [kind |-> "", text |-> ""]

InitState ==
    /\ reddit_instance = None
    /\ openrouter_client = None
    /\ init_completed = [reddit |-> 0, openrouter |-> 0]
    /\ loop = NoTask
    /\ pc = [s \in Sessions |-> "new"]
    /\ message = [s \in Sessions |-> NoFrame]
    /\ search_term = [s \in Sessions |-> NoTerm]
    /\ search_results = [s \in Sessions |-> <<>>]
    /\ idx = [s \in Sessions |-> 0]
    /\ collected_comments_data = [s \in Sessions |-> <<>>]
    /\ collected_comment_ids = [s \in Sessions |-> {}]
    /\ posts_procesados = [s \in Sessions |-> 0]
    /\ comments_text_for_ai = [s \in Sessions |-> <<>>]
    /\ stream = [s \in Sessions |-> <<>>]
    /\ pos = [s \in Sessions |-> 0]
    /\ content = [s \in Sessions |-> <<>>]
    /\ sent = [s \in Sessions |-> <<>>]
    /\ attempts = [s \in Sessions |-> 0]
    /\ calls = [s \in Sessions |-> <<>>]
    /\ signalled = [s \in Sessions |-> FALSE]
    /\ failed = [s \in Sessions |-> {}]

\* no pure function is being applied on its own
NoProbe ==
    [op |-> "none", comment |-> c1, min_words |-> 0, min_score |-> 0,
     data |-> <<>>, done |-> FALSE, valid |-> "none", corpus |-> <<>>]

\* the peer is not the bundled client
NoClient ==
    /\ client_pc = "absent"
    /\ client_received = 0
    /\ client_printed = <<>>
    /\ client_exit = "none"

\* one session, against every frame, listing, stream and failure
Init ==
    /\ env \in {[concurrent |-> FALSE,
                  reddit_secrets |-> a,
                  openrouter_key |-> b] : a, b \in BOOLEAN}
    /\ InitState
    /\ probe = NoProbe
    /\ NoClient

\* every session has a client, all on the one event-loop thread
InitConc ==
    /\ env \in {[concurrent |-> TRUE,
                  reddit_secrets |-> a,
                  openrouter_key |-> b] : a, b \in BOOLEAN}
    /\ InitState
    /\ probe = NoProbe
    /\ NoClient

Step(s) ==
    \/ Accept(s)
    \/ ReceiveText(s)
    \/ SendInvalidStart(s)
    \/ SendInvalidJson(s)
    \/ SendInternalError(s)
    \/ SendInicializando(s)
    \/ InitPraw(s)
    \/ PrawUserMe(s)
    \/ SendRedditInitError(s)
    \/ InitOpenRouter(s)
    \/ SendOpenRouterInitError(s)
    \/ SendBuscando(s)
    \/ SubredditSearch(s)
    \/ SendEncontrados(s)
    \/ SendLimite(s)
    \/ SendProcesando(s)
    \/ TraverseComments(s)
    \/ SleepAfterPost(s)
    \/ SendRedditError(s)
    \/ SendFinalizada(s)
    \/ SendNoComments(s)
    \/ SendLlamandoIA(s)
    \/ CompletionsCreate(s)
    \/ NextChunk(s)
    \/ SendAiChunk(s)
    \/ SleepAfterChunk(s)
    \/ SendCompletado(s)
    \/ SendAiError(s)
    \/ SendFinalData(s)

Next == \E s \in Sessions : Step(s)

Spec == Init /\ [][Next]_vars

SpecConc == InitConc /\ [][Next]_vars

(***************************************************************************)
(* The pure functions applied on their own: is_comment_valid on one        *)
(* comment and a pair of thresholds, and the corpus construction of lines  *)
(* 190-193 on a list of collected records.                                 *)
(***************************************************************************)
MaxBodyLen == 3
MaxCorpusBody == 6

BodyChars == {"a", " ", "\n"}
ProbeTexts == SeqsUpTo(BodyChars, MaxBodyLen) \cup {Deleted, Removed}
ProbeBodies ==
    {TextBody(t) : t \in ProbeTexts} \cup {NullBody, AbsentBody, IntBody}

FilterProbes ==
    {[op |-> "filter", comment |-> RawComment("c", b, sc, 0),
      min_words |-> w, min_score |-> m,
      data |-> <<>>, done |-> FALSE, valid |-> "none", corpus |-> <<>>] :
        b \in ProbeBodies, sc \in 0..2, w \in 0..2, m \in 0..2}

\* bodies a collected record can hold: they passed the filter; sampled
\* without leading, trailing or doubled blanks
CorpusTexts ==
    {t \in SeqsUpTo({"a", " "}, MaxCorpusBody) :
        /\ is_comment_valid(RawComment("c", TextBody(t), MIN_COMMENT_SCORE, 0),
                            MIN_COMMENT_WORDS, MIN_COMMENT_SCORE) = "true"
        /\ t[1] # " " /\ t[Len(t)] # " "
        /\ \A j \in 1..(Len(t) - 1) : ~(t[j] = " " /\ t[j + 1] = " ")}

CorpusRecords ==
    {CollectedComment(p1, RawComment("c", TextBody(t), MIN_COMMENT_SCORE, 0)) :
        t \in CorpusTexts}

CorpusProbes ==
    {[op |-> "corpus", comment |-> c1, min_words |-> 0, min_score |-> 0,
      data |-> d, done |-> FALSE, valid |-> "none", corpus |-> <<>>] :
        d \in SeqsUpTo(CorpusRecords, TOTAL_COMMENTS_TARGET) \ {<<>>}}

\* is_comment_valid(comment, min_words, min_score), lines 80-88
ApplyFilter ==
    /\ probe.op = "filter"
    /\ ~probe.done
    /\ probe' = [probe EXCEPT
                    !.done = TRUE,
                    !.valid = is_comment_valid(probe.comment, probe.min_words,
                                               probe.min_score)]
    /\ UNCHANGED <<env, reddit_instance, openrouter_client, init_completed,
                   client_vars, loop, pc, locals, wire, calls, failed>>

\* the join and the truncation, lines 190-193
ApplyCorpus ==
    /\ probe.op = "corpus"
    /\ ~probe.done
    /\ probe' = [probe EXCEPT !.done = TRUE,
                              !.corpus = BuildCorpus(probe.data)]
    /\ UNCHANGED <<env, reddit_instance, openrouter_client, init_completed,
                   client_vars, loop, pc, locals, wire, calls, failed>>

\* either a function is applied on its own or a session runs
InitPure ==
    \/ Init
    \/ /\ env = [concurrent |-> FALSE, reddit_secrets |-> FALSE,
                 openrouter_key |-> FALSE]
       /\ InitState
       /\ NoClient
       /\ probe \in FilterProbes \cup CorpusProbes

NextPure ==
    \/ ApplyFilter
    \/ ApplyCorpus
    \/ (probe.op = "none" /\ Next)

SpecPure == InitPure /\ [][NextPure]_vars

(***************************************************************************)
(* The bundled client, ws_client.py, as the peer of session 1: it asks for *)
(* a term, sends the start message and reads the server's events in the    *)
(* order they were sent.                                                   *)
(***************************************************************************)
server_vars == <<env, reddit_instance, openrouter_client, init_completed,
                 probe, loop, pc, locals, wire, calls, failed>>

\* lines 14-22: connected, the term is read; an empty term returns
ClientStart ==
    /\ client_pc = "input"
    /\ pc[1] # "new"
    /\ \E term \in {"", "coffee"} :
         client_pc' = IF term = "" THEN "returned" ELSE "loop"
    /\ UNCHANGED <<client_received, client_printed, client_exit, server_vars>>

\* lines 28-54 with the branch on "error" not leaving the loop
ClientRecv_nobreak ==
    /\ client_pc = "loop"
    /\ client_received < Len(sent[1])
    /\ LET msg_type == sent[1][client_received + 1].type IN
         /\ client_received' = client_received + 1
         /\ client_printed' = Append(client_printed, msg_type)
         /\ IF msg_type = "final_data"
            THEN client_pc' = "left" /\ client_exit' = msg_type
            ELSE UNCHANGED <<client_pc, client_exit>>
    /\ UNCHANGED server_vars

\* lines 28-54: one frame is received and handled by its type
ClientRecv ==
    /\ client_pc = "loop"
    /\ client_received < Len(sent[1])
    /\ LET msg_type == sent[1][client_received + 1].type IN
         /\ client_received' = client_received + 1
         /\ client_printed' = Append(client_printed, msg_type)
         /\ CASE msg_type = "status" -> UNCHANGED <<client_pc, client_exit>>
              [] msg_type = "ai_chunk" -> UNCHANGED <<client_pc, client_exit>>
              [] msg_type = "final_data" ->
                    client_pc' = "left" /\ client_exit' = "final_data"
              [] msg_type = "error" ->
                    client_pc' = "left" /\ client_exit' = "error"
              [] OTHER -> UNCHANGED <<client_pc, client_exit>>
    /\ UNCHANGED server_vars

\* lines 56-61: recv raises ConnectionClosed once the server's handler has
\* ended and every frame it sent has been read
ClientConnectionClosed ==
    /\ client_pc = "loop"
    /\ client_received = Len(sent[1])
    /\ pc[1] \in EndPCs
    /\ client_pc' = "left"
    /\ client_exit' = "closed"
    /\ UNCHANGED <<client_received, client_printed, server_vars>>

\* the client has connected and is about to ask for the term
InitClient ==
    /\ env \in {[concurrent |-> FALSE,
                  reddit_secrets |-> a,
                  openrouter_key |-> b] : a, b \in BOOLEAN}
    /\ InitState
    /\ probe = NoProbe
    /\ client_pc = "input"
    /\ client_received = 0
    /\ client_printed = <<>>
    /\ client_exit = "none"

\* the handler's steps against this client: its start message is always
\* a JSON object with "action": "start" and a term
StepClient(s) ==
    \/ Accept(s)
    \/ ReceiveText(s)
    \/ SendInternalError(s)
    \/ SendInicializando(s)
    \/ InitPraw(s)
    \/ PrawUserMe(s)
    \/ SendRedditInitError(s)
    \/ InitOpenRouter(s)
    \/ SendOpenRouterInitError(s)
    \/ SendBuscando(s)
    \/ SubredditSearch(s)
    \/ SendEncontrados(s)
    \/ SendLimite(s)
    \/ SendProcesando(s)
    \/ TraverseComments(s)
    \/ SleepAfterPost(s)
    \/ SendRedditError(s)
    \/ SendFinalizada(s)
    \/ SendNoComments(s)
    \/ SendLlamandoIA(s)
    \/ CompletionsCreate(s)
    \/ NextChunk(s)
    \/ SendAiChunk(s)
    \/ SleepAfterChunk(s)
    \/ SendCompletado(s)
    \/ SendAiError(s)
    \/ SendFinalData(s)

NextClient ==
    \/ ClientStart
    \/ ClientRecv
    \/ ClientConnectionClosed
    \/ \E s \in Sessions : StepClient(s)

SpecClient == InitClient /\ [][NextClient]_vars

(***************************************************************************)
(* Reading the event log                                                   *)
(***************************************************************************)
Count(s, type) ==
    Cardinality({i \in 1..Len(sent[s]) : sent[s][i].type = type})

HasStatus(s, tag) ==
    \E i \in 1..Len(sent[s]) :
        sent[s][i].type = "status" /\ sent[s][i].tag = tag

LastEvent(s) == sent[s][Len(sent[s])]

\* the texts of the ai_chunk events among the first n events, in order
RECURSIVE AiTexts(_, _)
AiTexts(events, n) ==
    IF n = 0 THEN <<>>
    ELSE IF events[n].type = "ai_chunk"
         THEN Append(AiTexts(events, n - 1), events[n].text)
         ELSE AiTexts(events, n - 1)

\* the non-empty texts among the first n chunks of a stream, in order
RECURSIVE TextsOf(_, _)
TextsOf(chunks, n) ==
    IF n = 0 THEN <<>>
    ELSE IF chunks[n].tag = "text" /\ chunks[n].chars # <<>>
         THEN Append(TextsOf(chunks, n - 1), chunks[n].chars)
         ELSE TextsOf(chunks, n - 1)

\* positions of run_analysis_stream
StreamPCs ==
    {"send_inicializando", "init_praw", "praw_me", "send_reddit_init_error",
     "init_openrouter", "send_openrouter_init_error", "send_buscando",
     "search", "send_encontrados", "send_limite", "send_procesando",
     "comments", "sleep_post", "send_reddit_error", "send_finalizada",
     "send_no_comments", "send_llamando", "create", "next_chunk",
     "send_ai_chunk", "sleep_chunk", "send_completado", "send_ai_error",
     "send_final_data"}

(***************************************************************************)
(* C1.  A session whose collection stage returned (no fatal search         *)
(* failure) and that saw no send failure ends with exactly one final_data  *)
(* event, its last event, carrying the collected sequence - also when      *)
(* that sequence is empty.                                                 *)
(***************************************************************************)
C1_FinalDataAlways ==
    \A s \in Sessions :
        (/\ pc[s] = "closed"
         /\ HasStatus(s, "finalizada")
         /\ "search" \notin failed[s]
         /\ "send" \notin failed[s])
        => /\ Count(s, "final_data") = 1
           /\ LastEvent(s) = FinalData(collected_comments_data[s])

(***************************************************************************)
(* C2.  When the completion call fails, before or during streaming, and    *)
(* no send fails: no further chunk is taken or sent; the session ends with *)
(* the ai_chunk events of the chunks taken before the failure, then        *)
(* exactly one error event, then final_data carrying every collected       *)
(* comment.                                                                *)
(***************************************************************************)
C2_ModelFailureKeepsData ==
    \A s \in Sessions :
        ("model" \in failed[s] /\ "send" \notin failed[s])
        => /\ pc[s] \in {"send_ai_error", "send_final_data", "closed"}
           /\ AiTexts(sent[s], Len(sent[s])) = TextsOf(stream[s], pos[s])
           /\ Count(s, "error") <= 1
           /\ pc[s] = "closed" =>
                LET n == Len(sent[s]) IN
                /\ n >= 2
                /\ sent[s][n] = FinalData(collected_comments_data[s])
                /\ sent[s][n - 1] = Error("ia")
                /\ Count(s, "error") = 1
                /\ Count(s, "final_data") = 1
                /\ \A i \in 1..(n - 2) :
                      sent[s][i].type \in {"status", "ai_chunk"}

C2_Witness ==
    \E s \in Sessions :
        /\ pc[s] = "closed"
        /\ failed[s] = {"model"}
        /\ Count(s, "ai_chunk") >= 1
        /\ LastEvent(s).type = "final_data"
        /\ LastEvent(s).comments # <<>>

(***************************************************************************)
(* C3.  Once WebSocketDisconnect has been raised to a session (by the      *)
(* receive or by a send), the session attempts no further send, delivers   *)
(* no further event and issues no further collaborator call.               *)
(***************************************************************************)
C3_NothingAfterDisconnect ==
    [][\A s \in Sessions :
          signalled[s] => /\ attempts'[s] = attempts[s]
                          /\ sent'[s] = sent[s]
                          /\ calls'[s] = calls[s]]_vars

C3_Witness ==
    \E s \in Sessions :
        /\ signalled[s]
        /\ pc[s] = "closed"
        /\ "comments" \in {calls[s][i] : i \in 1..Len(calls[s])}
        /\ LastEvent(s).tag = "procesando"

(***************************************************************************)
(* C4.  A first frame that is rejected (undecodable, or decoded without    *)
(* the start shape) yields only error events, at most one, and exactly one *)
(* when the handler has returned and no send failed; no collaborator is    *)
(* initialised or called for that session.                                 *)
(***************************************************************************)
LacksStartShape(m) ==
    ~m.decodable \/ ~m.isdict \/ m.action # "start" \/ ~m.has_term

C4_RejectedStart ==
    \A s \in Sessions :
        (message[s] \in FramePool /\ LacksStartShape(message[s]))
        => /\ \A i \in 1..Len(sent[s]) : sent[s][i].type = "error"
           /\ Len(sent[s]) <= 1
           /\ calls[s] = <<>>
           /\ reddit_instance # s
           /\ openrouter_client # s
           /\ pc[s] \notin StreamPCs
           /\ (pc[s] = "closed" /\ "send" \notin failed[s])
                => Len(sent[s]) = 1

C4_Witness ==
    \E s \in Sessions :
        /\ message[s] = M_foo
        /\ pc[s] = "closed"
        /\ sent[s] = <<Error("invalid_start")>>

(***************************************************************************)
(* C5.  A session is inside run_analysis_stream only when the start        *)
(* message has action "start" and a term that is a non-empty string.       *)
(***************************************************************************)
C5_OnlyNonEmptyTerm ==
    \A s \in Sessions :
        pc[s] \in StreamPCs
        => /\ message[s].action = "start"
           /\ message[s].has_term
           /\ message[s].term_kind = "str"
           /\ message[s].term # ""

(***************************************************************************)
(* C6.  If the search call fails, the completion collaborator is never     *)
(* invoked, no ai_chunk, no collection-finished status and no final_data   *)
(* is emitted, and the session ends with exactly one error event, its      *)
(* last event.                                                             *)
(***************************************************************************)
C6_SearchFailureIsFatal ==
    \A s \in Sessions :
        "search" \in failed[s]
        => /\ \A i \in 1..Len(calls[s]) : calls[s][i] \notin {"create", "next"}
           /\ Count(s, "ai_chunk") = 0
           /\ Count(s, "final_data") = 0
           /\ ~HasStatus(s, "finalizada")
           /\ Count(s, "error") <= 1
           /\ pc[s] \in {"send_reddit_error", "send_internal_error", "closed"}
           /\ (pc[s] = "closed" /\ "send" \notin failed[s])
                => /\ Count(s, "error") = 1
                   /\ LastEvent(s) = Error("reddit")

C6_Witness ==
    \E s \in Sessions :
        /\ "search" \in failed[s]
        /\ pc[s] = "closed"
        /\ LastEvent(s) = Error("reddit")

(***************************************************************************)
(* C7.  No failure propagates out of websocket_endpoint.                   *)
(***************************************************************************)
C7_NothingEscapes == \A s \in Sessions : pc[s] # "escaped"

(***************************************************************************)
(* C8.  While one session is inside a blocking collaborator call, every    *)
(* other session that is connected and has not ended can take a step.      *)
(***************************************************************************)
C8_BlockingDoesNotStall ==
    \A s, t \in Sessions :
        (/\ s # t
         /\ pc[s] \in BlockingPCs
         /\ pc[t] \notin EndPCs \cup {"new"})
        => ENABLED Step(t)

(***************************************************************************)
(* C9.  Each global handle is initialised at most once: at most one        *)
(* initialisation call per handle creates the handle and returns it, no    *)
(* two initialisation calls are in progress together, and a handle that    *)
(* is set is never re-created, replaced or reset by a later session (the   *)
(* only change of a set handle is the reset by the call that is creating   *)
(* it, when its own check fails).                                          *)
(***************************************************************************)
C9_HandleStep ==
    /\ (reddit_instance # None /\ reddit_instance' # reddit_instance)
         => (/\ pc[reddit_instance] = "praw_me"
             /\ pc'[reddit_instance] # "praw_me"
             /\ reddit_instance' = None)
    /\ (openrouter_client # None)
         => (openrouter_client' = openrouter_client)

C9_InitAtMostOnce ==
    /\ [](/\ init_completed.reddit <= 1
          /\ init_completed.openrouter <= 1
          /\ Cardinality({s \in Sessions : pc[s] \in {"init_praw", "praw_me"}}) <= 1
          /\ Cardinality({s \in Sessions : pc[s] = "init_openrouter"}) <= 1)
    /\ [][C9_HandleStep]_vars

C9_Witness ==
    /\ reddit_instance # None
    /\ openrouter_client # None
    /\ \E s \in Sessions :
          /\ reddit_instance # s
          /\ openrouter_client # s
          /\ pc[s] = "closed"
          /\ HasStatus(s, "buscando")

(***************************************************************************)
(* C10.  In a session with a valid start message that runs to completion   *)
(* (no failure but swallowed traversal failures), the events are, in order: the search status, a     *)
(* processing status per post processed in rank order, the                 *)
(* collection-finished status with the number of collected comments, the   *)
(* summariser's events, and final_data with that number of comments.       *)
(***************************************************************************)
C10_EventOrder ==
    \A s \in Sessions :
        (/\ pc[s] = "closed"
         /\ failed[s] \subseteq {"comments"}
         /\ IsStartMessage(message[s]))
        => LET e == sent[s]
               n == Len(e) IN
           /\ n >= 3
           /\ e[n].type = "final_data"
           /\ \E b, f \in 1..(n - 1) :
                 /\ b < f
                 /\ e[b] = Status("buscando", 0, 0)
                 /\ e[f] = Status("finalizada", 0, Len(e[n].comments))
                 /\ \A i \in 1..n :
                       (e[i].type = "status" /\ e[i].tag = "procesando")
                       => /\ b < i /\ i < f
                          /\ e[i].k =
                               Cardinality({j \in 1..i : e[j].tag = "procesando"})
                 /\ Cardinality({j \in 1..n : e[j].tag = "procesando"})
                      = posts_procesados[s]
                 /\ \A i \in (f + 1)..(n - 1) :
                       \/ e[i].type = "ai_chunk"
                       \/ /\ e[i].type = "status"
                          /\ e[i].tag \in {"llamando_ia", "completado",
                                            "sin_comentarios"}

(***************************************************************************)
(* C11.  When the collected sequence is empty, the summarisation stage     *)
(* emits one status event and no ai_chunk event, and the completion        *)
(* collaborator is never invoked in that session.                          *)
(***************************************************************************)
CallNames(s) == {calls[s][i] : i \in 1..Len(calls[s])}

C11_EmptyShortCircuit ==
    \A s \in Sessions :
        (HasStatus(s, "finalizada") /\ collected_comments_data[s] = <<>>)
        => /\ Count(s, "ai_chunk") = 0
           /\ CallNames(s) \cap {"create", "next"} = {}
           /\ ~HasStatus(s, "llamando_ia")
           /\ pc[s] \in {"send_no_comments", "send_internal_error", "closed"}
           /\ (pc[s] = "closed" /\ "send" \notin failed[s])
                => LastEvent(s) = Status("sin_comentarios", 0, 0)

C11_Witness ==
    \E s \in Sessions :
        /\ pc[s] = "closed"
        /\ collected_comments_data[s] = <<>>
        /\ posts_procesados[s] >= 1
        /\ LastEvent(s) = Status("sin_comentarios", 0, 0)

(***************************************************************************)
(* C12.  The collected sequence never holds more than                      *)
(* TOTAL_COMMENTS_TARGET comments, and once the target is met no further   *)
(* post is processed: no further processing status, no further traversal.  *)
(***************************************************************************)
C12_TargetMetStep ==
    \A s \in Sessions :
        Len(collected_comments_data[s]) >= TOTAL_COMMENTS_TARGET
        => /\ posts_procesados'[s] = posts_procesados[s]
           /\ pc'[s] \notin {"send_procesando", "comments"}
           /\ collected_comments_data'[s] = collected_comments_data[s]

C12_GlobalTarget ==
    /\ [](\A s \in Sessions :
            Len(collected_comments_data[s]) <= TOTAL_COMMENTS_TARGET)
    /\ [][C12_TargetMetStep]_vars

C12_Witness ==
    \E s \in Sessions :
        /\ Len(collected_comments_data[s]) = TOTAL_COMMENTS_TARGET
        /\ HasStatus(s, "limite")
        /\ posts_procesados[s] < Len(search_results[s])
        /\ pc[s] = "closed"

(***************************************************************************)
(* C13.  For every post identifier, the collected sequence never holds     *)
(* more than MAX_COMMENTS_PER_POST_TARGET comments of that post, for every *)
(* ranked list the search can return.                                      *)
(***************************************************************************)
FromPost(s, p) ==
    {i \in 1..Len(collected_comments_data[s]) :
        collected_comments_data[s][i].post_id = p}

C13_PerPostCap ==
    \A s \in Sessions : \A post \in PostPool :
        Cardinality(FromPost(s, post.id)) <= MAX_COMMENTS_PER_POST_TARGET

(***************************************************************************)
(* C14.  Every comment identifier appears at most once in the collected    *)
(* sequence, also when it is returned under two posts; the set of seen     *)
(* identifiers only grows and equals the comment_id values collected.      *)
(***************************************************************************)
C14_Dedup ==
    /\ [](\A s \in Sessions :
            LET data == collected_comments_data[s] IN
            /\ \A i, j \in 1..Len(data) :
                  data[i].comment_id = data[j].comment_id => i = j
            /\ collected_comment_ids[s] =
                 {data[i].comment_id : i \in 1..Len(data)})
    /\ [][\A s \in Sessions :
            collected_comment_ids[s] \subseteq collected_comment_ids'[s]]_vars

C14_Witness ==
    \E s \in Sessions :
        /\ search_results[s] = <<p1, p2>>
        /\ posts_procesados[s] = 2
        /\ pc[s] = "closed"
        /\ Cardinality(FromPost(s, "p1")) = 2
        /\ Cardinality(FromPost(s, "p2")) = 0
        /\ "c1" \in collected_comment_ids[s]

(***************************************************************************)
(* C18.  A failure while traversing the comments of one post never ends    *)
(* the session and is never reported: no error event is emitted for it,    *)
(* the comments of that post collected before the failure stay collected,  *)
(* and the session goes on to the next post.                               *)
(***************************************************************************)
IsPrefix(a, b) == Len(a) <= Len(b) /\ SubSeq(b, 1, Len(a)) = a

C18_TraversalStep ==
    \A s \in Sessions :
        /\ pc[s] = "comments" /\ pc'[s] # "comments"
            => /\ pc'[s] = "sleep_post"
               /\ IsPrefix(collected_comments_data[s], collected_comments_data'[s])
               /\ sent'[s] = sent[s]
        /\ pc[s] = "sleep_post" /\ pc'[s] # "sleep_post"
            => /\ pc'[s] \in {"send_procesando", "send_limite", "send_finalizada"}
               /\ idx'[s] = idx[s] + 1
               /\ collected_comments_data'[s] = collected_comments_data[s]

C18_TraversalFailureIsLocal ==
    /\ [](\A s \in Sessions :
            /\ failed[s] = {"comments"}
                => /\ Count(s, "error") = 0
                   /\ pc[s] \notin {"send_reddit_error", "send_internal_error",
                                     "escaped"}
                   /\ pc[s] = "closed"
                       => /\ HasStatus(s, "finalizada")
                          /\ \/ posts_procesados[s] = Len(search_results[s])
                             \/ Len(collected_comments_data[s])
                                  >= TOTAL_COMMENTS_TARGET
            /\ (/\ search_results[s] # <<>>
                /\ search_results[s][1] = p2
                /\ "comments" \in CallNames(s))
                => /\ "comments" \in failed[s]
                   /\ collected_comments_data[s] # <<>>
                   /\ collected_comments_data[s][1] = CollectedComment(p2, c1))
    /\ [][C18_TraversalStep]_vars

C18_Witness ==
    \E s \in Sessions :
        /\ pc[s] = "closed"
        /\ failed[s] = {"comments"}
        /\ search_results[s] = <<p2, p1>>
        /\ posts_procesados[s] = 2
        /\ Len(collected_comments_data[s]) = 2
        /\ collected_comments_data[s][1].post_id = "p2"
        /\ collected_comments_data[s][2].post_id = "p1"
        /\ LastEvent(s).type = "final_data"

(***************************************************************************)
(* C19.  The ai_chunk events of a session are the chunks of the model's    *)
(* stream that carry a non-empty text, in arrival order, each emitted      *)
(* before the next chunk is taken; a chunk with empty or absent text       *)
(* yields no event; the completion status comes after the last chunk and   *)
(* only when the stream ended without failure.                             *)
(***************************************************************************)
Sent_ai(s) == AiTexts(sent[s], Len(sent[s]))

IndexOfStatus(s, tag) ==
    CHOOSE i \in 1..Len(sent[s]) :
        sent[s][i].type = "status" /\ sent[s][i].tag = tag

C19_ChunksInOrder ==
    \A s \in Sessions :
        /\ IsPrefix(Sent_ai(s), TextsOf(stream[s], pos[s]))
        /\ \A i \in 1..Len(Sent_ai(s)) : Sent_ai(s)[i] # <<>>
        /\ pc[s] \in {"next_chunk", "sleep_chunk", "send_completado"}
            => Sent_ai(s) = TextsOf(stream[s], pos[s])
        /\ pc[s] = "send_ai_chunk"
            => /\ pos[s] >= 1
               /\ Sent_ai(s) = TextsOf(stream[s], pos[s] - 1)
               /\ TextsOf(stream[s], pos[s]) = Append(Sent_ai(s), content[s])
        /\ pc[s] = "send_completado" => pos[s] = Len(stream[s])
        /\ HasStatus(s, "completado")
            => /\ pos[s] = Len(stream[s])
               /\ "model" \notin failed[s]
               /\ Sent_ai(s) = TextsOf(stream[s], Len(stream[s]))
               /\ \A i \in 1..Len(sent[s]) :
                     sent[s][i].type = "ai_chunk"
                     => i < IndexOfStatus(s, "completado")

C19_Witness ==
    \E s \in Sessions :
        /\ pc[s] = "closed"
        /\ Len(stream[s]) = 4
        /\ HasStatus(s, "completado")
        /\ Sent_ai(s) = <<(<<"x">>), (<<"y">>)>>

(***************************************************************************)
(* C15.  For every comment with a text body and every pair of thresholds,  *)
(* is_comment_valid is true exactly when the body is non-empty, is neither *)
(* "[deleted]" nor "[removed]", has at least min_words whitespace-split    *)
(* words and a score of at least min_score (equality passes); and every    *)
(* collected comment satisfies this with MIN_COMMENT_WORDS and             *)
(* MIN_COMMENT_SCORE.                                                      *)
(***************************************************************************)
\* the number of positions at which a word starts
Words(text) ==
    Cardinality({j \in 1..Len(text) :
                    /\ ~IsSpace(text[j])
                    /\ (j = 1 \/ IsSpace(text[j - 1]))})

Passes(chars, score, min_words, min_score) ==
    /\ chars # <<>>
    /\ chars # Deleted
    /\ chars # Removed
    /\ Words(chars) >= min_words
    /\ score >= min_score

C15_FilterExact ==
    /\ (probe.op = "filter" /\ probe.done /\ probe.comment.body.tag = "text")
        => /\ probe.valid \in {"true", "false"}
           /\ probe.valid = "true"
                <=> Passes(probe.comment.body.chars, probe.comment.score,
                           probe.min_words, probe.min_score)
    /\ \A s \in Sessions : \A i \in 1..Len(collected_comments_data[s]) :
          Passes(collected_comments_data[s][i].comment_body,
                 collected_comments_data[s][i].comment_score,
                 MIN_COMMENT_WORDS, MIN_COMMENT_SCORE)

C15_Witness ==
    /\ probe.op = "filter"
    /\ probe.done
    /\ probe.valid = "true"
    /\ probe.min_words = 2
    /\ Words(probe.comment.body.chars) = probe.min_words
    /\ probe.comment.score = probe.min_score

(***************************************************************************)
(* C16.  The filter is total: for a comment whose body is absent, null or  *)
(* not text, is_comment_valid returns a failing result instead of raising, *)
(* so the traversal of a post fails only when the post's comments cannot   *)
(* be fetched, never because of one of its comments.                       *)
(***************************************************************************)
C16_FilterTotal ==
    /\ (probe.op = "filter" /\ probe.done /\ probe.comment.body.tag # "text")
        => probe.valid = "false"
    /\ \A s \in Sessions :
          "comments" \in failed[s]
          => \E i \in 1..Len(search_results[s]) :
                ~search_results[s][i].fetch_ok

(***************************************************************************)
(* C17.  The corpus is the collected bodies in collection order joined by  *)
(* a blank line; when its length L exceeds MAX_INPUT_CHARS_AI the text     *)
(* placed in the prompt is its first MAX_INPUT_CHARS_AI characters         *)
(* followed by the truncation marker once; otherwise it is the corpus      *)
(* unchanged, without marker.                                              *)
(***************************************************************************)
RECURSIVE CorpusLenFrom(_, _)
CorpusLenFrom(data, k) ==
    IF k > Len(data) THEN 0
    ELSE Len(data[k].comment_body)
         + (IF k < Len(data) THEN 2 ELSE 0) + CorpusLenFrom(data, k + 1)

CorpusLen(data) == CorpusLenFrom(data, 1)

\* the character at position q counted from the start of body k
RECURSIVE CorpusCharFrom(_, _, _)
CorpusCharFrom(data, k, q) ==
    LET body == data[k].comment_body IN
    IF q <= Len(body) THEN body[q]
    ELSE IF q <= Len(body) + 2 THEN "\n"
    ELSE CorpusCharFrom(data, k + 1, q - Len(body) - 2)

CorpusAsSpecified(data, text) ==
    LET L == CorpusLen(data)
        M == MAX_INPUT_CHARS_AI
        K == Len(TruncationMarker) IN
    IF L > M
    THEN /\ Len(text) = M + K
         /\ \A q \in 1..M : text[q] = CorpusCharFrom(data, 1, q)
         /\ \A q \in 1..K : text[M + q] = TruncationMarker[q]
    ELSE /\ Len(text) = L
         /\ \A q \in 1..L : text[q] = CorpusCharFrom(data, 1, q)

C17_CorpusAndTruncation ==
    /\ (probe.op = "corpus" /\ probe.done)
        => CorpusAsSpecified(probe.data, probe.corpus)
    /\ \A s \in Sessions :
          (HasStatus(s, "finalizada") /\ collected_comments_data[s] # <<>>)
          => CorpusAsSpecified(collected_comments_data[s],
                               comments_text_for_ai[s])

C17_Witness ==
    /\ probe.op = "corpus"
    /\ probe.done
    /\ Len(probe.data) = 2
    /\ CorpusLen(probe.data) = MAX_INPUT_CHARS_AI + 2
    /\ Len(probe.corpus) = MAX_INPUT_CHARS_AI + Len(TruncationMarker)

(***************************************************************************)
(* C20.  The bundled client leaves its receive loop at the first error     *)
(* event or the first final_data event, or when the connection closes,     *)
(* and never because of a status or ai_chunk event; when the server emits  *)
(* an error event followed by final_data, the client stops at the error    *)
(* and never processes that final_data.                                    *)
(***************************************************************************)
Terminal == {"error", "final_data"}

C20_ClientStopsAtFirstTerminal ==
    LET log == client_printed IN
    /\ client_received = Len(log)
    /\ client_received <= Len(sent[1])
    /\ \A i \in 1..Len(log) : log[i] = sent[1][i].type
    /\ \A i \in 1..(Len(log) - 1) : log[i] \notin Terminal
    /\ client_pc = "loop" => \A i \in 1..Len(log) : log[i] \notin Terminal
    /\ client_pc = "left"
        => \/ /\ client_exit \in Terminal
              /\ log # <<>>
              /\ log[Len(log)] = client_exit
           \/ /\ client_exit = "closed"
              /\ pc[1] \in EndPCs
              /\ Len(log) = Len(sent[1])
              /\ \A i \in 1..Len(log) : log[i] \notin Terminal
    /\ \A i, j \in 1..Len(sent[1]) :
          (i < j /\ sent[1][i].type = "error" /\ sent[1][j].type = "final_data")
          => /\ client_received <= i
             /\ \A k \in 1..Len(log) : log[k] # "final_data"

C20_Witness ==
    /\ client_pc = "left"
    /\ client_exit = "error"
    /\ \E k \in 1..Len(client_printed) : client_printed[k] = "ai_chunk"
    /\ pc[1] = "closed"
    /\ LastEvent(1).type = "final_data"
    /\ client_received = Len(sent[1]) - 1

====
